---- MODULE Spec2Model ----
(***************************************************************************)
(* The HMM construction pipeline of p7_builder.c: the build configuration  *)
(* (P7_BUILDER), the two entry points p7_Builder and p7_SingleBuilder, the *)
(* score system set-up, and the internal stages they run.                  *)
(*                                                                         *)
(* Objects on the C heap are numbered records of the variable heap; a      *)
(* pointer is the number of its object, NULL is 0.  Real numbers are       *)
(* fractions <<numerator, denominator>> with a positive denominator.       *)
(* Routines of other files (the weighting algorithms, the model makers,    *)
(* the entropy solver, the calibration, ...) are collaborators: each       *)
(* returns one of the outcomes its interface allows, chosen by \E.         *)
(***************************************************************************)
EXTENDS Integers, Sequences, FiniteSets, TLC

VARIABLES
  bld,      \* the P7_BUILDER configuration
  errcall,  \* number of the call that last wrote bld.errbuf (0: p7_builder_Create)
  heap,     \* the objects allocated and not yet forgotten: id -> [kind, call, frees, handed, val]
  loc,      \* the caller's output locations *opt_hmm, *opt_trarr, *opt_gm, *opt_om, *opt_postmsa
  fr,       \* the running entry point's frame: fn, req (which opt_ pointers are non-NULL), hmm, tr, status
  pc,       \* the position inside the running entry point, "idle" between calls
  msa,      \* the alignment passed to p7_Builder
  sq,       \* the query sequence passed to p7_SingleBuilder
  model,    \* the contents of the P7_HMM under construction
  trace,    \* the contents of the P7_TRACE p7_SingleBuilder builds
  log,      \* the stages run by the current call, each with the status it returned
  invoked,  \* the collaborator routines invoked by the current call, in order
  ret,      \* the value the last call returned
  calls,    \* how many calls of each kind have been made
  inp       \* the option set the configuration was created from, and the inputs
            \* the caller draws from (fixed by Init)

vars == <<bld, errcall, heap, loc, fr, pc, msa, sq, model, trace, log, invoked, ret, calls, inp>>

(***************************************************************************)
(* Bounds of the model.                                                    *)
(***************************************************************************)
MaxNseq   == 3    \* sequences in an alignment
MaxSeqLen == 2    \* residues in a single query sequence
MaxCalls  == 2    \* calls made on one configuration

(***************************************************************************)
(* Constants of the program.                                               *)
(***************************************************************************)
NULL == 0
DefaultPbswitch == 1000

eslOK        == "eslOK"
eslEMEM      == "eslEMEM"
eslENOTFOUND == "eslENOTFOUND"
eslEFORMAT   == "eslEFORMAT"
eslEINVAL    == "eslEINVAL"
eslENORESULT == "eslENORESULT"

p7_ARCH_FAST == "p7_ARCH_FAST"
p7_ARCH_HAND == "p7_ARCH_HAND"
p7_WGT_NONE   == "p7_WGT_NONE"
p7_WGT_GIVEN  == "p7_WGT_GIVEN"
p7_WGT_GSC    == "p7_WGT_GSC"
p7_WGT_PB     == "p7_WGT_PB"
p7_WGT_BLOSUM == "p7_WGT_BLOSUM"
p7_EFFN_NONE    == "p7_EFFN_NONE"
p7_EFFN_SET     == "p7_EFFN_SET"
p7_EFFN_CLUST   == "p7_EFFN_CLUST"
p7_EFFN_ENTROPY == "p7_EFFN_ENTROPY"
\* a strategy field that p7_builder_Create never assigned
Uninitialized == "uninitialized"

(***************************************************************************)
(* Real numbers as fractions.                                              *)
(***************************************************************************)
Real(n)    == <<n, 1>>
RMul(a, b) == <<a[1] * b[1], a[2] * b[2]>>
RDiv(a, b) == IF b[1] > 0 THEN <<a[1] * b[2], a[2] * b[1]>> ELSE <<(0 - a[1]) * b[2], a[2] * (0 - b[1])>>
REq(a, b)  == a[1] * b[2] = b[1] * a[2]
RLeq(a, b) == a[1] * b[2] <= b[1] * a[2]
RPos(a)    == a[1] > 0

(***************************************************************************)
(* The heap.                                                               *)
(***************************************************************************)
NewId(h) == CHOOSE i \in 1..(Cardinality(DOMAIN h) + 1) :
              i \notin DOMAIN h /\ \A j \in 1..(i - 1) : j \in DOMAIN h

\* a successful allocation by call c
Alloc(h, kind, c) == h @@ (NewId(h) :> [kind |-> kind, call |-> c, frees |-> 0, handed |-> 0, val |-> "-"])

\* the p7_*_Destroy / esl_*_Destroy routines: a no-op on NULL, one release otherwise
Destroy(h, p) == IF p = NULL THEN h ELSE [h EXCEPT ![p].frees = @ + 1]

\* the assignment *opt_x = x of an object to a caller's location
Hand(h, p) == IF p = NULL THEN h ELSE [h EXCEPT ![p].handed = @ + 1]

\* when a new call starts, the objects of the earlier build calls are the caller's
\* business; the model keeps the score system the configuration points to, and any
\* score matrix or probability table that was not released exactly once
Forget(h, b) ==
  LET keep == {i \in DOMAIN h :
                 \/ i \in {b.S, b.Q}
                 \/ h[i].kind \in {"builder", "randomness", "prior"}
                 \/ (h[i].kind \in {"scorematrix", "dmatrix"} /\ h[i].frees # 1)}
  IN [i \in keep |-> h[i]]

(***************************************************************************)
(* 1. P7_BUILDER: allocation, initialization.                              *)
(***************************************************************************)
\* the application configuration <go>: the options that are on, and the values
\* of the valued options; isnull stands for go == NULL
GoNull == [isnull |-> TRUE, on |-> {}, eset |-> Real(-1), ere |-> Real(-1), pbswitch |-> 0, seed |-> 0]

PriorFor(abc) ==
  IF abc = "eslAMINO" THEN "p7_prior_CreateAmino"
  ELSE IF abc \in {"eslDNA", "eslRNA"} THEN "p7_prior_CreateNucleic"
  ELSE "p7_prior_CreateLaplace"

\* mutant of DoReseeding: the flag is never set
DoReseeding_Never(seed) == FALSE

\* p7_builder_Create, line 115: reseed before each calibration unless the seed is 0
DoReseeding(seed) == seed # 0

p7_builder_Create(go, abc) ==
  LET on(o) == (~go.isnull) /\ o \in go.on
      seed  == IF go.isnull THEN 0 ELSE go.seed
  IN [ prior         |-> PriorFor(abc),
       r             |-> [seed |-> seed, pos |-> 0],
       S             |-> NULL,
       Q             |-> NULL,
       eset          |-> IF on("--eent") \/ on("--eclust") \/ on("--enone") THEN Real(-1)
                         ELSE IF on("--eset") THEN go.eset ELSE Real(-1),
       re_target     |-> IF on("--ere") THEN go.ere ELSE Real(-1),
       arch_strategy |-> IF go.isnull THEN p7_ARCH_FAST
                         ELSE IF on("--fast") THEN p7_ARCH_FAST
                         ELSE IF on("--hand") THEN p7_ARCH_HAND
                         ELSE Uninitialized,
       wgt_strategy  |-> IF go.isnull THEN p7_WGT_GSC
                         ELSE IF on("--wgsc")    THEN p7_WGT_GSC
                         ELSE IF on("--wblosum") THEN p7_WGT_BLOSUM
                         ELSE IF on("--wpb")     THEN p7_WGT_PB
                         ELSE IF on("--wnone")   THEN p7_WGT_NONE
                         ELSE IF on("--wgiven")  THEN p7_WGT_GIVEN
                         ELSE Uninitialized,
       effn_strategy |-> IF go.isnull THEN p7_EFFN_ENTROPY
                         ELSE IF on("--eent")   THEN p7_EFFN_ENTROPY
                         ELSE IF on("--eclust") THEN p7_EFFN_CLUST
                         ELSE IF on("--enone")  THEN p7_EFFN_NONE
                         ELSE IF on("--eset")   THEN p7_EFFN_SET
                         ELSE Uninitialized,
       pbswitch      |-> IF go.isnull THEN DefaultPbswitch ELSE go.pbswitch,
       do_reseeding  |-> DoReseeding(seed),
       gaps          |-> "unset",
       abc           |-> abc,
       errbuf        |-> "" ]

\* the values a strategy field may hold: the ones p7_builder_Create assigned, or,
\* for a field it never assigned, whatever the allocated memory held: any of the
\* category's values or none of them
Indeterminate(field, values) ==
  IF field = Uninitialized THEN values \cup {"garbage"} ELSE {field}

\* the configurations a run of p7_builder_Create may produce from the fields it assigns
Concrete(b) ==
  {[b EXCEPT !.arch_strategy = a, !.wgt_strategy = w, !.effn_strategy = e] :
     a \in Indeterminate(b.arch_strategy, {p7_ARCH_FAST, p7_ARCH_HAND}),
     w \in Indeterminate(b.wgt_strategy, {p7_WGT_NONE, p7_WGT_GIVEN, p7_WGT_GSC, p7_WGT_PB, p7_WGT_BLOSUM}),
     e \in Indeterminate(b.effn_strategy, {p7_EFFN_NONE, p7_EFFN_SET, p7_EFFN_CLUST, p7_EFFN_ENTROPY})}

\* the caller has no configuration: before p7_builder_Create, after it
\* returned NULL, after p7_builder_Destroy
NoBuilder == [self |-> NULL, r_obj |-> NULL, prior_obj |-> NULL, S |-> NULL, Q |-> NULL]

\* p7_builder_Destroy, lines 236-248
p7_builder_Destroy(h, b) ==
  IF b.self = NULL THEN h
  ELSE Destroy(Destroy(Destroy(Destroy(Destroy(h, b.prior_obj), b.r_obj), b.Q), b.S), b.self)

\* which of the three allocations of p7_builder_Create succeed: the record
\* (ESL_ALLOC), the random source (esl_randomness_Create), the prior
CreateOutcomes ==
  {[alloc |-> FALSE, r |-> FALSE, prior |-> FALSE]}
  \cup {[alloc |-> TRUE, r |-> x, prior |-> y] : x \in BOOLEAN, y \in BOOLEAN}

AllBuilt == [alloc |-> TRUE, r |-> TRUE, prior |-> TRUE]

\* p7_builder_Create, lines 63, 114, 117-132: the allocations, with the fields b
\* the run assigns; the configuration returned (NoBuilder for NULL) and the heap
CreateRun(h, b, o) ==
  IF ~o.alloc THEN [bld |-> NoBuilder, heap |-> h]
  ELSE
    LET self  == NewId(h)
        h1    == Alloc(h, "builder", 0)
        r     == IF o.r THEN NewId(h1) ELSE NULL
        h2    == IF o.r THEN Alloc(h1, "randomness", 0) ELSE h1
        prior == IF o.prior THEN NewId(h2) ELSE NULL
        h3    == IF o.prior THEN Alloc(h2, "prior", 0) ELSE h2
        new   == [self |-> self, r_obj |-> r, prior_obj |-> prior] @@ b
    IN IF prior = NULL
       THEN [bld |-> NoBuilder, heap |-> p7_builder_Destroy(h3, new)]
       ELSE [bld |-> new, heap |-> h3]

(***************************************************************************)
(* The inputs the caller draws from.                                       *)
(***************************************************************************)
ArchFlags == {"--fast", "--hand"}
WgtFlags  == {"--wgsc", "--wblosum", "--wpb", "--wnone", "--wgiven"}
EffnFlags == {"--eent", "--eclust", "--enone"}
\* values of --eset: below and above any sequence count of the model
EsetValues == {<<1, 2>>, Real(MaxNseq + 2)}
\* values of --pbswitch: the sentinel that turns the switch-over off, and a threshold
PbswitchValues == {-1, 2}

\* option sets as hmmbuild hands them over: one flag of each category is on
GoSet(archs, wgts, effns, esets, pbs, seeds) ==
  {[isnull |-> FALSE, on |-> {a, w, e}, eset |-> Real(-1), ere |-> Real(-1), pbswitch |-> pb, seed |-> sd] :
      a \in archs, w \in wgts, e \in effns, pb \in pbs, sd \in seeds}
  \cup
  {[isnull |-> FALSE, on |-> {a, w, "--eset"}, eset |-> es, ere |-> Real(-1), pbswitch |-> pb, seed |-> sd] :
      a \in archs, w \in wgts, es \in esets, pb \in pbs, sd \in seeds}

\* relative weights an alignment may arrive with (wgt0 keeps them for reference)
MsaWeights(n) == {[i \in 1..n |-> 1], [i \in 1..n |-> 2], [i \in 1..n |-> i]}

MsaSet(names, cutsets) ==
  UNION {{[nseq |-> n, wgt |-> w, wgt0 |-> w, name |-> nm, cutset |-> cs] :
             w \in MsaWeights(n), nm \in names, cs \in cutsets} : n \in 1..MaxNseq}

\* which optional outputs the caller asks for (the opt_ pointer is non-NULL)
Requests == [hmm : BOOLEAN, tr : BOOLEAN, gm : BOOLEAN, om : BOOLEAN, postmsa : BOOLEAN]
NoRequest == [hmm |-> FALSE, tr |-> FALSE, gm |-> FALSE, om |-> FALSE, postmsa |-> FALSE]
AllRequest == [hmm |-> TRUE, tr |-> TRUE, gm |-> TRUE, om |-> TRUE, postmsa |-> TRUE]

NoMsa == [nseq |-> 0, wgt |-> <<>>, wgt0 |-> <<>>, name |-> FALSE, cutset |-> {}]
NoSq  == [n |-> 0]
NoTrace == [steps |-> <<>>, M |-> 0, L |-> 0]
EmptyModel == [nseq |-> 0, eff_nseq |-> Real(0), counts |-> <<>>, counts0 |-> <<>>,
               flags |-> {}, cutoff |-> {}, evparam |-> <<>>]
NoFrame == [fn |-> "none", req |-> NoRequest, hmm |-> NULL, tr |-> NULL, status |-> "unset"]
NoLoc == [hmm |-> NULL, tr |-> NULL, gm |-> NULL, om |-> NULL, postmsa |-> NULL]

callno == calls.score + calls.build

InitWith(gos, abcs, universe) ==
  /\ \E go \in gos, abc \in abcs :
       \E b \in Concrete(p7_builder_Create(go, abc)) :
         /\ bld = CreateRun(<<>>, b, AllBuilt).bld
         /\ heap = CreateRun(<<>>, b, AllBuilt).heap
         /\ inp = [go |-> go] @@ universe
  /\ errcall = 0
  /\ loc = NoLoc
  /\ fr = NoFrame
  /\ pc = "idle"
  /\ msa = NoMsa
  /\ sq = NoSq
  /\ model = EmptyModel
  /\ trace = NoTrace
  /\ log = <<>>
  /\ invoked = <<>>
  /\ ret = [fn |-> "none", status |-> "unset"]
  /\ calls = [score |-> 0, build |-> 0]

(***************************************************************************)
(* Collaborators: routines of other files, by the outcomes their           *)
(* interfaces allow.                                                       *)
(***************************************************************************)
\* the error kinds a collaborator may return
CollabFail == {eslEMEM, eslEINVAL}

\* esl_msaweight_PB / _GSC / _BLOSUM: new positive weights, or a failure
\* that leaves the weights as they were
esl_msaweight(m) ==
  {[status |-> eslOK, wgt |-> w] : w \in {[i \in 1..m.nseq |-> 1], [i \in 1..m.nseq |-> m.nseq + 1 - i]}}
  \cup {[status |-> s, wgt |-> m.wgt] : s \in CollabFail}

\* p7_Fastmodelmaker / p7_Handmodelmaker: the statuses they may return
ModelmakerStatus == {eslOK, eslENORESULT, eslEFORMAT, eslEMEM, eslEINVAL}

\* the new model of a successful model maker: weighted observed counts, the
\* nominal sequence number of the alignment, no effective number yet
MadeModel(m) ==
  [EmptyModel EXCEPT !.nseq = m.nseq,
                     !.eff_nseq = Real(m.nseq),
                     !.counts  = <<Real(m.wgt[1]), Real(m.nseq)>>,
                     !.counts0 = <<Real(m.wgt[1]), Real(m.nseq)>>]

\* esl_msacluster_SingleLinkage: between 1 and nseq clusters, or a failure
SingleLinkage(m) ==
  {[status |-> eslOK, nclust |-> k] : k \in 1..m.nseq}
  \cup {[status |-> s, nclust |-> 0] : s \in CollabFail}

\* p7_EntropyWeight: an effective number in (0, nseq], or a failure
EntropyWeight(hm) ==
  {[status |-> eslOK, eff_nseq |-> e] : e \in {<<1, 2>>, <<2 * hm.nseq - 1, 2>>, Real(hm.nseq)}}
  \cup {[status |-> s, eff_nseq |-> Real(0)] : s \in CollabFail}

\* p7_hmm_Scale: every count of the model times the factor
p7_hmm_Scale(hm, factor) ==
  [hm EXCEPT !.counts = [i \in DOMAIN hm.counts |-> RMul(hm.counts[i], factor)]]

\* p7_Calibrate: on success the requested profiles are in the locations it was
\* given; on failure it has released what it built and the locations hold what
\* calibrate() put there, and it may or may not have left a message
p7_Calibrate(r) ==
  {[status |-> eslOK, gm |-> r.gm, om |-> r.om, msg |-> FALSE]}
  \cup {[status |-> s, gm |-> FALSE, om |-> FALSE, msg |-> w] : s \in CollabFail, w \in BOOLEAN}

(***************************************************************************)
(* 2. Standardized model construction API: p7_Builder.                     *)
(***************************************************************************)
BuilderStages == <<"relative_weights", "build_model", "effective_seqnumber", "parameterize",
                   "annotate", "calibrate", "make_post_msa">>

StageIndex(stage) == CHOOSE i \in 1..Len(BuilderStages) : BuilderStages[i] = stage

\* mutant of BuilderNext: parameterize is left out of the chain
BuilderNext_SkipsStage(stage, status) ==
  IF status # eslOK THEN "ERROR"
  ELSE IF StageIndex(stage) = Len(BuilderStages) THEN "finish"
  ELSE IF stage = "effective_seqnumber" THEN "annotate"
  ELSE BuilderStages[StageIndex(stage) + 1]

\* p7_Builder, lines 314-320: where control goes when a stage has returned
BuilderNext(stage, status) ==
  IF status # eslOK THEN "ERROR"
  ELSE IF StageIndex(stage) = Len(BuilderStages) THEN "finish"
  ELSE BuilderStages[StageIndex(stage) + 1]

\* what a stage leaves behind: its status in the frame and in the log, its
\* message (if it wrote one) in the configuration's buffer
StageReturns(stage, status, msg) ==
  /\ fr' = [fr EXCEPT !.status = status]
  /\ log' = Append(log, [stage |-> stage, st |-> status])
  /\ bld' = IF msg = "" THEN bld ELSE [bld EXCEPT !.errbuf = msg]
  /\ errcall' = IF msg = "" THEN errcall ELSE callno

\* a call of an entry point: the caller's locations hold NULL, or (those the code
\* reads before it writes them, *opt_gm and *opt_om) an object the caller owns
Enter(fn, r, e) ==
  LET h0  == Forget(heap, bld)
      gm0 == IF e = "owned" /\ r.gm THEN NewId(h0) ELSE NULL
      h1  == IF gm0 # NULL THEN Alloc(h0, "profile", 0) ELSE h0
      om0 == IF e = "owned" /\ r.om THEN NewId(h1) ELSE NULL
      h2  == IF om0 # NULL THEN Alloc(h1, "oprofile", 0) ELSE h1
  IN /\ heap' = h2
     /\ loc' = [NoLoc EXCEPT !.gm = gm0, !.om = om0]
     /\ fr' = [NoFrame EXCEPT !.fn = fn, !.req = r]
     /\ calls' = [calls EXCEPT !.build = @ + 1]
     /\ model' = EmptyModel
     /\ trace' = NoTrace
     /\ log' = <<>>
     /\ invoked' = <<>>

StartBuilder ==
  /\ pc = "idle"
  /\ calls.build < inp.builds /\ callno < inp.calls
  /\ \E m \in inp.msas, r \in inp.reqs, e \in inp.entries :
       /\ Enter("p7_Builder", r, e)
       /\ msa' = m
  /\ sq' = NoSq
  /\ pc' = "relative_weights"
  /\ UNCHANGED <<bld, errcall, ret, inp>>

\* mutant of WeightRoutine: the switch-over needs more than pbswitch sequences
WeightRoutine_StrictSwitch(b, m) ==
  IF      b.wgt_strategy = p7_WGT_NONE                  THEN "esl_vec_DSet"
  ELSE IF b.wgt_strategy = p7_WGT_GIVEN                 THEN "nothing"
  ELSE IF b.pbswitch # -1 /\ m.nseq > b.pbswitch        THEN "esl_msaweight_PB"
  ELSE IF b.wgt_strategy = p7_WGT_PB                    THEN "esl_msaweight_PB"
  ELSE IF b.wgt_strategy = p7_WGT_GSC                   THEN "esl_msaweight_GSC"
  ELSE IF b.wgt_strategy = p7_WGT_BLOSUM                THEN "esl_msaweight_BLOSUM"
  ELSE "undefined"

\* mutant of WeightRoutine: the switch-over is tested before the strategy
WeightRoutine_SwitchFirst(b, m) ==
  IF      b.pbswitch # -1 /\ m.nseq >= b.pbswitch       THEN "esl_msaweight_PB"
  ELSE IF b.wgt_strategy = p7_WGT_NONE                  THEN "esl_vec_DSet"
  ELSE IF b.wgt_strategy = p7_WGT_GIVEN                 THEN "nothing"
  ELSE IF b.wgt_strategy = p7_WGT_PB                    THEN "esl_msaweight_PB"
  ELSE IF b.wgt_strategy = p7_WGT_GSC                   THEN "esl_msaweight_GSC"
  ELSE IF b.wgt_strategy = p7_WGT_BLOSUM                THEN "esl_msaweight_BLOSUM"
  ELSE "undefined"

\* relative_weights(), lines 414-419: the routine the strategy selects
WeightRoutine(b, m) ==
  IF      b.wgt_strategy = p7_WGT_NONE                  THEN "esl_vec_DSet"
  ELSE IF b.wgt_strategy = p7_WGT_GIVEN                 THEN "nothing"
  ELSE IF b.pbswitch # -1 /\ m.nseq >= b.pbswitch       THEN "esl_msaweight_PB"
  ELSE IF b.wgt_strategy = p7_WGT_PB                    THEN "esl_msaweight_PB"
  ELSE IF b.wgt_strategy = p7_WGT_GSC                   THEN "esl_msaweight_GSC"
  ELSE IF b.wgt_strategy = p7_WGT_BLOSUM                THEN "esl_msaweight_BLOSUM"
  ELSE "undefined"

WeightAlgorithms == {"esl_msaweight_PB", "esl_msaweight_GSC", "esl_msaweight_BLOSUM"}

\* relative_weights(), lines 409-427
relative_weights ==
  /\ pc = "relative_weights"
  /\ LET routine == WeightRoutine(bld, msa)
         outcomes ==
           IF routine = "esl_vec_DSet" THEN {[status |-> eslOK, wgt |-> [i \in 1..msa.nseq |-> 1]]}
           ELSE IF routine = "nothing" THEN {[status |-> eslOK, wgt |-> msa.wgt]}
           ELSE IF routine \in WeightAlgorithms THEN esl_msaweight(msa)
           \* no branch taken: status is read uninitialized
           ELSE {[status |-> s, wgt |-> msa.wgt] : s \in CollabFail \cup {eslOK}}
     IN \E o \in outcomes :
          /\ msa' = [msa EXCEPT !.wgt = o.wgt]
          /\ invoked' = IF routine \in {"nothing", "undefined"} THEN invoked ELSE Append(invoked, routine)
          /\ StageReturns("relative_weights", o.status,
                          IF o.status # eslOK THEN "failed to set relative weights in alignment" ELSE "")
          /\ pc' = BuilderNext("relative_weights", o.status)
  /\ UNCHANGED <<heap, loc, sq, model, trace, ret, calls, inp>>

\* build_model(), lines 445-447 and 452-455: the message for a failed model maker
BuildModelMessage(arch, status) ==
  IF arch = p7_ARCH_FAST THEN
    IF      status = eslENORESULT THEN "Alignment has no consensus columns w/ > symfrac residues - can't build a model."
    ELSE IF status = eslEMEM      THEN "Memory allocation failure in model construction."
    ELSE "internal error in model construction."
  ELSE
    IF      status = eslENORESULT THEN "Alignment has no annotated consensus columns - can't build a model."
    ELSE IF status = eslEFORMAT   THEN "Alignment has no reference annotation line"
    ELSE IF status = eslEMEM      THEN "Memory allocation failure in model construction."
    ELSE "internal error in model construction."

\* build_model(), lines 437-461; <opt_tr> is p7_Builder's tr_ptr of line 311
build_model ==
  /\ pc = "build_model"
  /\ LET maker == IF bld.arch_strategy = p7_ARCH_FAST THEN "p7_Fastmodelmaker"
                  ELSE IF bld.arch_strategy = p7_ARCH_HAND THEN "p7_Handmodelmaker"
                  ELSE "nothing"
         tr_ptr == fr.req.tr \/ fr.req.postmsa
     IN \E made \in (IF maker = "nothing" THEN {"nothing"} ELSE ModelmakerStatus) :
          IF made = "nothing" THEN
            /\ StageReturns("build_model", eslOK, "")
            /\ pc' = BuilderNext("build_model", eslOK)
            /\ UNCHANGED <<heap, model, invoked>>
          ELSE
            LET hmm == IF made = eslOK THEN NewId(heap) ELSE NULL
                h1  == IF made = eslOK THEN Alloc(heap, "hmm", callno) ELSE heap
                tr  == IF made = eslOK /\ tr_ptr THEN NewId(h1) ELSE NULL
                h2  == IF tr # NULL THEN Alloc(h1, "trarr", callno) ELSE h1
            IN /\ heap' = h2
               /\ model' = IF made = eslOK THEN MadeModel(msa) ELSE model
               /\ invoked' = Append(invoked, maker)
               /\ log' = Append(log, [stage |-> "build_model", st |-> made])
               /\ fr' = [fr EXCEPT !.status = made, !.hmm = hmm, !.tr = tr]
               /\ bld' = IF made = eslOK THEN bld
                         ELSE [bld EXCEPT !.errbuf = BuildModelMessage(bld.arch_strategy, made)]
               /\ errcall' = IF made = eslOK THEN errcall ELSE callno
               /\ pc' = BuilderNext("build_model", made)
  /\ UNCHANGED <<loc, msa, sq, trace, ret, calls, inp>>

\* mutant of EffectiveNumber: the set strategy ignores the caller's value
EffectiveNumber_IgnoresEset(b, m, hm) ==
  IF b.effn_strategy = p7_EFFN_NONE THEN
    {[status |-> eslOK, eff_nseq |-> Real(m.nseq), routine |-> "nothing", msg |-> ""]}
  ELSE IF b.effn_strategy = p7_EFFN_SET THEN
    {[status |-> eslOK, eff_nseq |-> Real(m.nseq), routine |-> "nothing", msg |-> ""]}
  ELSE IF b.effn_strategy = p7_EFFN_CLUST THEN
    {[status |-> o.status, eff_nseq |-> Real(o.nclust), routine |-> "esl_msacluster_SingleLinkage",
      msg |-> IF o.status = eslOK THEN ""
              ELSE IF o.status = eslEMEM THEN "memory allocation failed"
              ELSE "single linkage clustering algorithm (at eid% id) failed"] : o \in SingleLinkage(m)}
  ELSE IF b.effn_strategy = p7_EFFN_ENTROPY THEN
    {[status |-> o.status, eff_nseq |-> o.eff_nseq, routine |-> "p7_EntropyWeight",
      msg |-> IF o.status = eslOK THEN ""
              ELSE IF o.status = eslEMEM THEN "memory allocation failed"
              ELSE "internal failure in entropy weighting algorithm"] : o \in EntropyWeight(hm)}
  \* no branch taken: the model keeps the effective number it came with
  ELSE {[status |-> eslOK, eff_nseq |-> hm.eff_nseq, routine |-> "nothing", msg |-> ""]}

\* effective_seqnumber(), lines 482-507: the outcomes of the strategy's branch
EffectiveNumber(b, m, hm) ==
  IF b.effn_strategy = p7_EFFN_NONE THEN
    {[status |-> eslOK, eff_nseq |-> Real(m.nseq), routine |-> "nothing", msg |-> ""]}
  ELSE IF b.effn_strategy = p7_EFFN_SET THEN
    {[status |-> eslOK, eff_nseq |-> b.eset, routine |-> "nothing", msg |-> ""]}
  ELSE IF b.effn_strategy = p7_EFFN_CLUST THEN
    {[status |-> o.status, eff_nseq |-> Real(o.nclust), routine |-> "esl_msacluster_SingleLinkage",
      msg |-> IF o.status = eslOK THEN ""
              ELSE IF o.status = eslEMEM THEN "memory allocation failed"
              ELSE "single linkage clustering algorithm (at eid% id) failed"] : o \in SingleLinkage(m)}
  ELSE IF b.effn_strategy = p7_EFFN_ENTROPY THEN
    {[status |-> o.status, eff_nseq |-> o.eff_nseq, routine |-> "p7_EntropyWeight",
      msg |-> IF o.status = eslOK THEN ""
              ELSE IF o.status = eslEMEM THEN "memory allocation failed"
              ELSE "internal failure in entropy weighting algorithm"] : o \in EntropyWeight(hm)}
  \* no branch taken: the model keeps the effective number it came with
  ELSE {[status |-> eslOK, eff_nseq |-> hm.eff_nseq, routine |-> "nothing", msg |-> ""]}

\* mutant of ScaleFactor: nominal over effective
ScaleFactor_Inverted(hm) == RDiv(Real(hm.nseq), hm.eff_nseq)

\* effective_seqnumber(), line 509: the factor the counts are scaled by
ScaleFactor(hm) == RDiv(hm.eff_nseq, Real(hm.nseq))

\* effective_seqnumber(), lines 477-514
effective_seqnumber ==
  /\ pc = "effective_seqnumber"
  /\ \E o \in EffectiveNumber(bld, msa, model) :
       LET hm == [model EXCEPT !.eff_nseq = o.eff_nseq]
           called == IF o.routine = "nothing" THEN invoked ELSE Append(invoked, o.routine)
       IN /\ model' = IF o.status = eslOK THEN p7_hmm_Scale(hm, ScaleFactor(hm)) ELSE model
          /\ invoked' = IF o.status = eslOK THEN Append(called, "p7_hmm_Scale") ELSE called
          /\ StageReturns("effective_seqnumber", o.status, o.msg)
          /\ pc' = BuilderNext("effective_seqnumber", o.status)
  /\ UNCHANGED <<heap, loc, msa, sq, trace, ret, calls, inp>>

\* parameterize(), lines 520-531
parameterize ==
  /\ pc = "parameterize"
  /\ \E st \in {eslOK} \cup CollabFail :
       /\ StageReturns("parameterize", st, IF st # eslOK THEN "parameter estimation failed" ELSE "")
       /\ pc' = BuilderNext("parameterize", st)
  /\ invoked' = Append(invoked, "p7_ParameterEstimation")
  /\ UNCHANGED <<heap, loc, msa, sq, model, trace, ret, calls, inp>>

\* annotate(), lines 548-553: the steps that may fail, each with its message
AnnotateSteps ==
  << [routine |-> "p7_hmm_SetAccession",   msg |-> "Failed to record MSA accession"],
     [routine |-> "p7_hmm_SetDescription", msg |-> "Failed to record MSA description"],
     [routine |-> "p7_hmm_SetCtime",       msg |-> "Failed to record timestamp"],
     [routine |-> "esl_msa_Checksum",      msg |-> "Failed to record checksum"],
     [routine |-> "p7_hmm_SetComposition", msg |-> "Failed to determine model composition"] >>

\* every step succeeds (failing = 0), or one of them fails
AnnotateOutcomes ==
  {[failing |-> 0, status |-> eslOK]}
  \cup {[failing |-> i, status |-> st] : i \in 1..Len(AnnotateSteps), st \in CollabFail}

\* the score cutoffs of an alignment (msa->cutoff[]), where set
MsaCutoff == [GA1 |-> 25, GA2 |-> 20, TC1 |-> 30, TC2 |-> 28, NC1 |-> 19, NC2 |-> 18]

\* a copy that is content with one member of the pair
CopyCutoffs_EitherMember(hm, m, c1, c2, flag) ==
  IF c1 \in m.cutset \/ c2 \in m.cutset
  THEN [hm EXCEPT !.cutoff = {p \in @ : p[1] \notin {c1, c2}} \cup {<<c1, MsaCutoff[c1]>>, <<c2, MsaCutoff[c2]>>},
                  !.flags = @ \cup {flag}]
  ELSE hm

\* annotate(), lines 557-559: one family of cutoffs
CopyCutoffs(hm, m, c1, c2, flag) ==
  IF c1 \in m.cutset /\ c2 \in m.cutset
  THEN [hm EXCEPT !.cutoff = {p \in @ : p[1] \notin {c1, c2}} \cup {<<c1, MsaCutoff[c1]>>, <<c2, MsaCutoff[c2]>>},
                  !.flags = @ \cup {flag}]
  ELSE hm

\* annotate(), lines 539-565
annotate ==
  /\ pc = "annotate"
  /\ IF ~msa.name THEN
       /\ StageReturns("annotate", eslEINVAL, "Unable to name the HMM.")
       /\ pc' = BuilderNext("annotate", eslEINVAL)
       /\ UNCHANGED <<model, invoked>>
     ELSE
       \E o \in AnnotateOutcomes :
         LET nrun == IF o.failing = 0 THEN Len(AnnotateSteps) ELSE o.failing
             flagged == [model EXCEPT !.flags = @ \cup {"p7H_CHKSUM", "p7H_COMPO"}]
         IN /\ invoked' = invoked \o <<"p7_hmm_SetName">> \o [i \in 1..nrun |-> AnnotateSteps[i].routine]
            /\ model' = IF o.failing # 0 THEN model
                        ELSE CopyCutoffs(CopyCutoffs(CopyCutoffs(flagged,
                               msa, "GA1", "GA2", "p7H_GA"), msa, "TC1", "TC2", "p7H_TC"),
                               msa, "NC1", "NC2", "p7H_NC")
            /\ StageReturns("annotate", o.status, IF o.failing = 0 THEN "" ELSE AnnotateSteps[o.failing].msg)
            /\ pc' = BuilderNext("annotate", o.status)
  /\ UNCHANGED <<heap, loc, msa, sq, trace, ret, calls, inp>>

\* p7_SingleBuilder, lines 370-371: where control goes when a stage has returned
SingleNext(stage, status) ==
  IF status # eslOK THEN "sb_ERROR"
  ELSE IF stage = "p7_Seqmodel" THEN "sb_calibrate"
  ELSE "sb_trace"

\* calibrate(), lines 573-586, for p7_Builder and for p7_SingleBuilder
calibrate ==
  /\ pc \in {"calibrate", "sb_calibrate"}
  /\ \E o \in p7_Calibrate(fr.req) :
       LET loc0  == [loc EXCEPT !.gm = IF fr.req.gm THEN NULL ELSE @,
                                !.om = IF fr.req.om THEN NULL ELSE @]
           gm    == IF o.gm THEN NewId(heap) ELSE NULL
           h1    == IF o.gm THEN Hand(Alloc(heap, "profile", callno), gm) ELSE heap
           om    == IF o.om THEN NewId(h1) ELSE NULL
           h2    == IF o.om THEN Hand(Alloc(h1, "oprofile", callno), om) ELSE h1
           start == IF bld.do_reseeding THEN 0 ELSE bld.r.pos
           msg   == IF o.msg THEN "calibration failed" ELSE ""
       IN /\ loc' = [loc0 EXCEPT !.gm = IF o.gm THEN gm ELSE @, !.om = IF o.om THEN om ELSE @]
          /\ heap' = h2
          /\ model' = IF o.status = eslOK THEN [model EXCEPT !.evparam = <<bld.r.seed, start>>] ELSE model
          /\ fr' = [fr EXCEPT !.status = o.status]
          /\ log' = Append(log, [stage |-> "calibrate", st |-> o.status])
          /\ bld' = [bld EXCEPT !.r.pos = start + 1, !.errbuf = IF o.msg THEN msg ELSE @]
          /\ errcall' = IF o.msg THEN callno ELSE errcall
          /\ pc' = IF fr.fn = "p7_Builder" THEN BuilderNext("calibrate", o.status)
                   ELSE SingleNext("calibrate", o.status)
  /\ invoked' = Append(invoked, "p7_Calibrate")
  /\ UNCHANGED <<msa, sq, trace, ret, calls, inp>>

\* p7_tracealign_MSA: the new alignment, or a failure that may leave a partly built one
p7_tracealign_MSA ==
  {[status |-> eslOK, built |-> TRUE]}
  \cup {[status |-> s, built |-> part] : s \in CollabFail, part \in BOOLEAN}

\* make_post_msa(), lines 595-613
make_post_msa ==
  /\ pc = "make_post_msa"
  /\ IF ~fr.req.postmsa THEN
       /\ StageReturns("make_post_msa", eslOK, "")
       /\ pc' = BuilderNext("make_post_msa", eslOK)
       /\ UNCHANGED <<heap, loc, invoked>>
     ELSE
       \E o \in p7_tracealign_MSA :
         LET postmsa == IF o.built THEN NewId(heap) ELSE NULL
             h1      == IF o.built THEN Alloc(heap, "msa", callno) ELSE heap
         IN /\ heap' = IF o.status = eslOK THEN Hand(h1, postmsa) ELSE Destroy(h1, postmsa)
            /\ loc' = IF o.status = eslOK THEN [loc EXCEPT !.postmsa = postmsa] ELSE loc
            /\ invoked' = Append(invoked, "p7_tracealign_MSA")
            /\ StageReturns("make_post_msa", o.status, "")
            /\ pc' = BuilderNext("make_post_msa", o.status)
  /\ UNCHANGED <<msa, sq, model, trace, ret, calls, inp>>

\* mutant of BuilderKeep: the model and the traces are handed over unasked
BuilderKeep_Unasked(h, f) == Hand(Hand(h, f.hmm), f.tr)

\* p7_Builder, lines 322-323: the model and the traces go to the caller or are released
BuilderKeep(h, f) ==
  LET h1 == IF f.req.hmm THEN Hand(h, f.hmm) ELSE Destroy(h, f.hmm)
  IN IF f.req.tr THEN Hand(h1, f.tr) ELSE Destroy(h1, f.tr)

\* mutant of BuilderRelease: the error path forgets the trace array
BuilderRelease_KeepsTraces(h, f, l) ==
  LET h1 == Destroy(h, f.hmm)
      h2 == IF f.req.gm THEN Destroy(h1, l.gm) ELSE h1
  IN IF f.req.om THEN Destroy(h2, l.om) ELSE h2

\* p7_Builder, lines 327-330: what the error path releases
BuilderRelease(h, f, l) ==
  LET h1 == Destroy(Destroy(h, f.hmm), f.tr)
      h2 == IF f.req.gm THEN Destroy(h1, l.gm) ELSE h1
  IN IF f.req.om THEN Destroy(h2, l.om) ELSE h2

\* mutant of BuilderFailure: the error path returns one fixed error kind
BuilderFailure_FixedKind(f) == eslEINVAL

\* p7_Builder, line 331: the status the error path returns
BuilderFailure(f) == f.status

\* p7_Builder, lines 322-324
BuilderFinish ==
  /\ pc = "finish"
  /\ heap' = BuilderKeep(heap, fr)
  /\ loc' = [loc EXCEPT !.hmm = IF fr.req.hmm THEN fr.hmm ELSE @,
                        !.tr  = IF fr.req.tr  THEN fr.tr  ELSE @]
  /\ ret' = [fn |-> fr.fn, status |-> eslOK]
  /\ pc' = "idle"
  /\ UNCHANGED <<bld, errcall, fr, msa, sq, model, trace, log, invoked, calls, inp>>

\* p7_Builder, lines 326-331
BuilderError ==
  /\ pc = "ERROR"
  /\ heap' = BuilderRelease(heap, fr, loc)
  /\ ret' = [fn |-> fr.fn, status |-> BuilderFailure(fr)]
  /\ pc' = "idle"
  /\ UNCHANGED <<bld, errcall, loc, fr, msa, sq, model, trace, log, invoked, calls, inp>>

(***************************************************************************)
(* 2. Standardized model construction API: p7_SingleBuilder.               *)
(***************************************************************************)
StartSingle ==
  /\ pc = "idle"
  /\ calls.build < inp.builds /\ callno < inp.calls
  \* p7_SingleBuilder has no opt_postmsa argument
  /\ \E s \in inp.sqs, r \in inp.reqs, e \in inp.entries :
       /\ Enter("p7_SingleBuilder", [r EXCEPT !.postmsa = FALSE], e)
       /\ sq' = s
  /\ msa' = NoMsa
  /\ pc' = "sb_check"
  /\ UNCHANGED <<bld, errcall, ret, inp>>

\* mutant of ScoreSystemSet: the test of bld->Q is missing
ScoreSystemSet_Unchecked(b) == TRUE

\* p7_SingleBuilder, line 368: is the score system there
ScoreSystemSet(b) == b.Q # NULL

\* p7_SingleBuilder, lines 367-368
SingleCheck ==
  /\ pc = "sb_check"
  /\ bld' = [bld EXCEPT !.errbuf = ""]
  /\ errcall' = callno
  /\ IF ScoreSystemSet(bld) THEN
       /\ pc' = "sb_seqmodel"
       /\ UNCHANGED <<fr, log, invoked>>
     ELSE
       /\ fr' = [fr EXCEPT !.status = eslEINVAL]
       /\ log' = Append(log, [stage |-> "score system", st |-> eslEINVAL])
       /\ invoked' = Append(invoked, "esl_exception")
       /\ pc' = "sb_ERROR"
  /\ UNCHANGED <<heap, loc, msa, sq, model, trace, ret, calls, inp>>

\* the model p7_Seqmodel makes of one sequence
SeqModel(s) ==
  [EmptyModel EXCEPT !.nseq = 1, !.eff_nseq = Real(1),
                     !.counts = <<Real(s.n)>>, !.counts0 = <<Real(s.n)>>]

\* p7_SingleBuilder, line 370
SingleSeqmodel ==
  /\ pc = "sb_seqmodel"
  /\ \E st \in {eslOK} \cup CollabFail :
       /\ heap' = IF st = eslOK THEN Alloc(heap, "hmm", callno) ELSE heap
       /\ fr' = [fr EXCEPT !.status = st, !.hmm = IF st = eslOK THEN NewId(heap) ELSE NULL]
       /\ model' = IF st = eslOK THEN SeqModel(sq) ELSE model
       /\ log' = Append(log, [stage |-> "p7_Seqmodel", st |-> st])
       /\ pc' = SingleNext("p7_Seqmodel", st)
  /\ invoked' = Append(invoked, "p7_Seqmodel")
  /\ UNCHANGED <<bld, errcall, loc, msa, sq, trace, ret, calls, inp>>

\* mutant of FauxTrace: the loop over the residues starts at 0 and stops before n
FauxTrace_OffByOne(n) ==
  <<[st |-> "p7T_B", k |-> 0, i |-> 0]>>
  \o [j \in 1..n |-> [st |-> "p7T_M", k |-> j - 1, i |-> j - 1]]
  \o <<[st |-> "p7T_E", k |-> 0, i |-> 0]>>

\* p7_SingleBuilder, lines 377-380: B, then M_k at position k for k = 1..n, then E
FauxTrace(n) ==
  <<[st |-> "p7T_B", k |-> 0, i |-> 0]>>
  \o [j \in 1..n |-> [st |-> "p7T_M", k |-> j, i |-> j]]
  \o <<[st |-> "p7T_E", k |-> 0, i |-> 0]>>

\* p7_trace_Create and the p7_trace_Append calls: the trace cannot be created,
\* or the append number <failing> fails, or all succeed (failing = 0)
TraceOutcomes(n) ==
  {[created |-> FALSE, failing |-> 0, status |-> eslEMEM]}
  \cup {[created |-> TRUE, failing |-> j, status |-> eslEMEM] : j \in 1..(n + 2)}
  \cup {[created |-> TRUE, failing |-> 0, status |-> eslOK]}

\* p7_SingleBuilder, lines 374-383
SingleTrace ==
  /\ pc = "sb_trace"
  /\ IF ~fr.req.tr THEN
       /\ pc' = "sb_finish"
       /\ UNCHANGED <<heap, fr, trace, log, invoked>>
     ELSE
       \E o \in TraceOutcomes(sq.n) :
         IF ~o.created THEN
           \* line 376: goto ERROR with the status calibrate() left
           /\ pc' = "sb_ERROR"
           /\ invoked' = Append(invoked, "p7_trace_Create")
           /\ UNCHANGED <<heap, fr, trace, log>>
         ELSE
           LET done == IF o.failing = 0 THEN sq.n + 2 ELSE o.failing - 1 IN
           /\ heap' = Alloc(heap, "trace", callno)
           /\ fr' = [fr EXCEPT !.tr = NewId(heap), !.status = o.status]
           /\ trace' = [steps |-> SubSeq(FauxTrace(sq.n), 1, done),
                        M |-> IF o.failing = 0 THEN sq.n ELSE 0,
                        L |-> IF o.failing = 0 THEN sq.n ELSE 0]
           /\ log' = Append(log, [stage |-> "p7_trace_Append", st |-> o.status])
           /\ invoked' = invoked \o <<"p7_trace_Create", "p7_trace_Append">>
           /\ pc' = IF o.failing = 0 THEN "sb_finish" ELSE "sb_ERROR"
  /\ UNCHANGED <<bld, errcall, loc, msa, sq, model, ret, calls, inp>>

\* p7_SingleBuilder, lines 385-386: the model and the trace go to the caller
SingleKeep(h, f) ==
  LET h1 == IF f.req.hmm THEN Hand(h, f.hmm) ELSE Destroy(h, f.hmm)
  IN IF f.req.tr THEN Hand(h1, f.tr) ELSE h1

\* p7_SingleBuilder, lines 390-393: what the error path releases
SingleRelease(h, f, l) ==
  LET h1 == Destroy(Destroy(h, f.hmm), f.tr)
      h2 == IF f.req.gm THEN Destroy(h1, l.gm) ELSE h1
  IN IF f.req.om THEN Destroy(h2, l.om) ELSE h2

\* p7_SingleBuilder, line 394: the status the error path returns
SingleFailure(f) == f.status

\* p7_SingleBuilder, lines 385-387
SingleFinish ==
  /\ pc = "sb_finish"
  /\ heap' = SingleKeep(heap, fr)
  /\ loc' = [loc EXCEPT !.hmm = IF fr.req.hmm THEN fr.hmm ELSE @,
                        !.tr  = IF fr.req.tr  THEN fr.tr  ELSE @]
  /\ ret' = [fn |-> fr.fn, status |-> eslOK]
  /\ pc' = "idle"
  /\ UNCHANGED <<bld, errcall, fr, msa, sq, model, trace, log, invoked, calls, inp>>

\* p7_SingleBuilder, lines 389-394
SingleError ==
  /\ pc = "sb_ERROR"
  /\ heap' = SingleRelease(heap, fr, loc)
  /\ ret' = [fn |-> fr.fn, status |-> SingleFailure(fr)]
  /\ pc' = "idle"
  /\ UNCHANGED <<bld, errcall, loc, fr, msa, sq, model, trace, log, invoked, calls, inp>>

(***************************************************************************)
(* 1. P7_BUILDER: p7_builder_SetScoreSystem.                               *)
(***************************************************************************)
\* how a call may go: the matrix source (<mxfile> NULL for BLOSUM62, or a file),
\* the first routine that fails ("none": all succeed) and the status it returns.
\* BLOSUM62 is an amino acid matrix, and symmetric; a matrix read from a file may
\* not be symmetric.
ScoreOutcomes(b) ==
  {[mxfile |-> mx, fail |-> "esl_scorematrix_Create", status |-> eslEMEM] : mx \in {"NULL", "file"}}
  \cup {[mxfile |-> "NULL", fail |-> "esl_scorematrix_SetBLOSUM62", status |-> eslEINVAL] :
          x \in IF b.abc = "eslAMINO" THEN {} ELSE {1}}
  \cup {[mxfile |-> "file", fail |-> "esl_fileparser_Open", status |-> eslENOTFOUND]}
  \cup {[mxfile |-> "file", fail |-> "esl_sco_Read", status |-> st] : st \in {eslEFORMAT, eslEMEM}}
  \cup {[mxfile |-> "file", fail |-> "esl_scorematrix_IsSymmetric", status |-> eslEINVAL]}
  \cup {[mxfile |-> mx, fail |-> "esl_sco_Probify", status |-> st] : mx \in {"NULL", "file"}, st \in CollabFail}
  \cup {[mxfile |-> mx, fail |-> "none", status |-> eslOK] : mx \in {"NULL", "file"}}

\* mutant of ScoreRoutines: the back-calculation comes before the symmetry test
ScoreRoutines_ProbifyFirst(o) ==
  LET all == IF o.mxfile = "NULL"
             THEN <<"esl_scorematrix_Create", "esl_scorematrix_SetBLOSUM62",
                    "esl_sco_Probify", "esl_scorematrix_IsSymmetric">>
             ELSE <<"esl_scorematrix_Create", "esl_fileparser_Open", "esl_sco_Read",
                    "esl_sco_Probify", "esl_scorematrix_IsSymmetric">>
      last == IF o.fail = "none" THEN Len(all) ELSE CHOOSE i \in 1..Len(all) : all[i] = o.fail
  IN SubSeq(all, 1, last)

\* the routines a call runs, in order, up to the one that fails
ScoreRoutines(o) ==
  LET all == IF o.mxfile = "NULL"
             THEN <<"esl_scorematrix_Create", "esl_scorematrix_SetBLOSUM62",
                    "esl_scorematrix_IsSymmetric", "esl_sco_Probify">>
             ELSE <<"esl_scorematrix_Create", "esl_fileparser_Open", "esl_sco_Read",
                    "esl_scorematrix_IsSymmetric", "esl_sco_Probify">>
      last == IF o.fail = "none" THEN Len(all) ELSE CHOOSE i \in 1..Len(all) : all[i] = o.fail
  IN SubSeq(all, 1, last)

\* p7_builder_SetScoreSystem, lines 202-209: the message of a failure
ScoreMessage(o) ==
  IF      o.fail = "esl_fileparser_Open"         THEN "Failed to find or open matrix file"
  ELSE IF o.fail = "esl_sco_Read"                THEN "Failed to read matrix from file"
  ELSE IF o.fail = "esl_scorematrix_IsSymmetric" THEN "Matrix isn't symmetric"
  ELSE IF o.fail = "esl_sco_Probify"
    THEN "Yu/Altschul method failed to backcalculate probabilistic basis of score matrix"
  ELSE ""

\* mutant of ScoreStatus: the status of the failing routine is passed on as it is
ScoreStatus_Verbatim(o) == o.status

\* p7_builder_SetScoreSystem, lines 202-209 and 220: the status returned
ScoreStatus(o) ==
  IF o.fail \in {"esl_scorematrix_IsSymmetric", "esl_sco_Probify"} THEN eslEINVAL ELSE o.status

\* p7_builder_SetScoreSystem, lines 188-227: the configuration and the heap after
\* the call number c with outcome o.  esl_sco_Read stores a matrix of its own
\* through &bld->S (NULL when it fails), esl_sco_Probify stores the table through
\* &bld->Q (NULL when it fails); fa and fb live only inside the call.
SetScoreSystemRun(b, h, c, o) ==
  LET ran(x) == \E i \in 1..Len(ScoreRoutines(o)) : ScoreRoutines(o)[i] = x
      ok(x)  == ran(x) /\ o.fail # x
      h1 == Destroy(Destroy(h, b.S), b.Q)
      S1 == IF ok("esl_scorematrix_Create") THEN NewId(h1) ELSE NULL
      h2 == IF S1 # NULL THEN Alloc(h1, "scorematrix", c) ELSE h1
      S2 == IF ok("esl_sco_Read") THEN NewId(h2) ELSE IF ran("esl_sco_Read") THEN NULL ELSE S1
      h3 == IF ok("esl_sco_Read") THEN Alloc(h2, "scorematrix", c) ELSE h2
      Q1 == IF ok("esl_sco_Probify") THEN NewId(h3) ELSE IF ran("esl_sco_Probify") THEN NULL ELSE b.Q
      h4 == IF ok("esl_sco_Probify")
            THEN [Alloc(h3, "dmatrix", c) EXCEPT ![Q1].val = "conditional"] ELSE h3
  IN [bld  |-> [b EXCEPT !.errbuf = ScoreMessage(o), !.S = S2, !.Q = Q1,
                         !.gaps = IF o.fail = "none" THEN "set" ELSE @],
      heap |-> h4]

SetScoreSystem ==
  /\ pc = "idle"
  /\ calls.score < inp.scores /\ callno < inp.calls
  /\ \E o \in ScoreOutcomes(bld) :
       LET after == SetScoreSystemRun(bld, Forget(heap, bld), callno + 1, o) IN
       /\ bld' = after.bld
       /\ heap' = after.heap
       /\ invoked' = ScoreRoutines(o)
       /\ log' = IF o.fail = "none" THEN <<>> ELSE <<[stage |-> o.fail, st |-> o.status]>>
       /\ fr' = [NoFrame EXCEPT !.fn = "p7_builder_SetScoreSystem", !.status = ScoreStatus(o)]
       /\ ret' = [fn |-> "p7_builder_SetScoreSystem", status |-> ScoreStatus(o)]
  /\ errcall' = callno + 1
  /\ calls' = [calls EXCEPT !.score = @ + 1]
  /\ loc' = NoLoc
  /\ msa' = NoMsa
  /\ sq' = NoSq
  /\ model' = EmptyModel
  /\ trace' = NoTrace
  /\ UNCHANGED <<pc, inp>>

(***************************************************************************)
(* The specifications.                                                     *)
(***************************************************************************)
BuilderStep ==
  \/ StartBuilder
  \/ relative_weights
  \/ build_model
  \/ effective_seqnumber
  \/ parameterize
  \/ annotate
  \/ calibrate
  \/ make_post_msa
  \/ BuilderFinish
  \/ BuilderError

SingleStep ==
  \/ StartSingle
  \/ SingleCheck
  \/ SingleSeqmodel
  \/ SingleTrace
  \/ SingleFinish
  \/ SingleError

Next == BuilderStep \/ SingleStep \/ SetScoreSystem

\* one configuration used for a series of calls of any kind: the default
\* configuration and a configured one, nothing or everything asked for
GoMain ==
  {GoNull,
   [isnull |-> FALSE, on |-> {"--hand", "--wnone", "--eclust"}, eset |-> Real(-1), ere |-> Real(-1),
    pbswitch |-> 2, seed |-> 42]}

Init ==
  InitWith(GoMain, {"eslAMINO"},
           [msas |-> {[nseq |-> 2, wgt |-> <<1, 2>>, wgt0 |-> <<1, 2>>, name |-> TRUE, cutset |-> {}]},
            sqs |-> {[n |-> MaxSeqLen]},
            reqs |-> {NoRequest, AllRequest},
            entries |-> {"null", "owned"},
            builds |-> MaxCalls, scores |-> MaxCalls, calls |-> MaxCalls])

Spec == Init /\ [][Next]_vars

\* the default configuration, at most one p7_builder_SetScoreSystem and one
\* build, every choice of outputs
InitCall ==
  InitWith({GoNull}, {"eslAMINO"},
           [msas |-> {[nseq |-> 2, wgt |-> <<1, 2>>, wgt0 |-> <<1, 2>>, name |-> nm, cutset |-> {}] : nm \in BOOLEAN},
            sqs |-> {[n |-> n] : n \in 1..MaxSeqLen},
            reqs |-> Requests,
            entries |-> {"null", "owned"},
            builds |-> 1, scores |-> 1, calls |-> 2])

SpecCall == InitCall /\ [][Next]_vars

\* every configuration and every alignment, one call of p7_Builder
InitStages ==
  InitWith(GoSet(ArchFlags, WgtFlags, EffnFlags, EsetValues, PbswitchValues, {42}), {"eslAMINO"},
           [msas |-> MsaSet({TRUE}, {{}, {"GA1", "GA2", "TC1"}}),
            sqs |-> {},
            reqs |-> {AllRequest},
            entries |-> {"null"},
            builds |-> 1, scores |-> 0, calls |-> 1])

SpecStages == InitStages /\ [][BuilderStep]_vars

\* the members of the three cutoff families, msa->cutset[eslMSA_GA1..NC2]
CutoffNames == {"GA1", "GA2", "TC1", "TC2", "NC1", "NC2"}

\* the default configuration, alignments with every choice of cutoffs set, one
\* call of p7_Builder
InitAnnotate ==
  InitWith({GoNull}, {"eslAMINO"},
           [msas |-> MsaSet(BOOLEAN, SUBSET CutoffNames),
            sqs |-> {},
            reqs |-> {AllRequest},
            entries |-> {"null"},
            builds |-> 1, scores |-> 0, calls |-> 1])

SpecAnnotate == InitAnnotate /\ [][BuilderStep]_vars

\* the default configuration, reconfigured up to MaxCalls times and used for
\* one build in between or afterwards
InitReconfigure ==
  InitWith({GoNull}, {"eslAMINO"},
           [msas |-> {[nseq |-> 1, wgt |-> <<1>>, wgt0 |-> <<1>>, name |-> TRUE, cutset |-> {}]},
            sqs |-> {[n |-> 1]},
            reqs |-> {NoRequest, AllRequest},
            entries |-> {"null"},
            builds |-> 1, scores |-> MaxCalls, calls |-> MaxCalls + 1])

SpecReconfigure == InitReconfigure /\ [][Next]_vars

(***************************************************************************)
(* The life of a configuration: p7_builder_Create, any number of           *)
(* p7_builder_SetScoreSystem calls, p7_builder_Destroy.                    *)
(***************************************************************************)
\* p7_builder_Create, lines 55-132, called with the options and the alphabet of inp
Create ==
  /\ pc = "nocfg"
  /\ \E b \in Concrete(p7_builder_Create(inp.go, inp.abc)), o \in CreateOutcomes :
       LET made == CreateRun(heap, b, o) IN
       /\ bld' = made.bld
       /\ heap' = made.heap
       /\ pc' = IF made.bld.self = NULL THEN "gone" ELSE "idle"
       /\ fr' = [NoFrame EXCEPT !.fn = "p7_builder_Create",
                                !.status = IF o.alloc /\ o.prior THEN eslOK ELSE eslEMEM]
  /\ ret' = [fn |-> "p7_builder_Create", status |-> IF bld'.self = NULL THEN "NULL" ELSE "bld"]
  /\ UNCHANGED <<errcall, loc, msa, sq, model, trace, log, invoked, calls, inp>>

\* p7_builder_Destroy, lines 236-248, called on the configuration the caller holds
DestroyBuilder ==
  /\ pc = "idle"
  /\ heap' = p7_builder_Destroy(heap, bld)
  /\ bld' = NoBuilder
  /\ pc' = "gone"
  /\ fr' = [NoFrame EXCEPT !.fn = "p7_builder_Destroy"]
  /\ ret' = [fn |-> "p7_builder_Destroy", status |-> "void"]
  /\ UNCHANGED <<errcall, loc, msa, sq, model, trace, log, invoked, calls, inp>>

LifeStep == Create \/ SetScoreSystem \/ DestroyBuilder

\* no configuration yet; the options and the alphabet p7_builder_Create will get
InitLife(gos, abcs, universe) ==
  /\ \E go \in gos, abc \in abcs : inp = [go |-> go, abc |-> abc] @@ universe
  /\ bld = NoBuilder
  /\ errcall = 0
  /\ heap = <<>>
  /\ loc = NoLoc
  /\ fr = NoFrame
  /\ pc = "nocfg"
  /\ msa = NoMsa
  /\ sq = NoSq
  /\ model = EmptyModel
  /\ trace = NoTrace
  /\ log = <<>>
  /\ invoked = <<>>
  /\ ret = [fn |-> "none", status |-> "unset"]
  /\ calls = [score |-> 0, build |-> 0]

\* option sets in which any flag may be off: at most one flag of each category
\* is on, "-" stands for none
GoAny(esets, pbs, seeds) ==
  {[isnull |-> FALSE, on |-> {a, w, e} \ {"-"}, eset |-> es, ere |-> Real(-1), pbswitch |-> pb, seed |-> sd] :
      a \in ArchFlags \cup {"-"}, w \in WgtFlags \cup {"-"}, e \in EffnFlags \cup {"--eset", "-"},
      es \in esets, pb \in pbs, sd \in seeds}

\* every option set, every alphabet, every outcome of the allocations
InitCreate ==
  InitLife({GoNull} \cup GoAny(EsetValues, {2}, {0, 42}), {"eslAMINO", "eslDNA", "eslRNA", "eslCOINS"},
           [scores |-> 1, calls |-> 1])

SpecCreate == InitCreate /\ [][LifeStep]_vars

\* the default configuration, any series of p7_builder_SetScoreSystem calls
InitScore ==
  InitLife({GoNull}, {"eslAMINO", "eslDNA"}, [scores |-> MaxCalls + 1, calls |-> MaxCalls + 1])

SpecScore == InitScore /\ [][LifeStep]_vars

(***************************************************************************)
(* default_target_relent, lines 632-646: the default target relative       *)
(* entropy of a model of M consensus positions.                            *)
(***************************************************************************)
\* the largest model length the small lengths are drawn up to
MaxM == 12

\* the range of the C int the length M and the two int expressions of line 636 have
INT_MAX == 2147483647
INT_MIN == 0 - INT_MAX - 1

\* a 32-bit word is <<its high 16 bits, its low 16 bits>>
Half == 65536
Word(n) == <<n \div Half, n % Half>>
WAdd(a, b) ==
  LET lo == a[2] + b[2] IN <<(a[1] + b[1] + (lo \div Half)) % Half, lo % Half>>

\* the low 16 bits of the product of two half words, a byte of x at a time
Byte == 256
MulHalf(x, y) == ((((x \div Byte) * y) % Half) * Byte + (x % Byte) * y) % Half

\* the word w shifted left by a byte
WShl8(w) == <<(w[1] * Byte + (w[2] \div Byte)) % Half, (w[2] % Byte) * Byte>>

\* the low 32 bits of the product of two words
WMul(a, b) ==
  LET low == WAdd(WShl8(Word((a[2] \div Byte) * b[2])), Word((a[2] % Byte) * b[2]))
  IN WAdd(low, <<(MulHalf(a[1], b[2]) + MulHalf(a[2], b[1])) % Half, 0>>)

\* the two's complement value of a word
Signed(w) == IF w[1] < Half \div 2 THEN w[1] * Half + w[2] ELSE (w[1] - Half) * Half + w[2]

\* a signed overflow is undefined: the expression has its wrapped value or an
\* int of any sign
AnyInt == {-2, 0, 2}
IntOutcomes(overflows, w) == IF overflows THEN {Signed(w)} \cup AnyInt ELSE {Signed(w)}

\* M * (M+1) of line 636, in int
Product(M) == IntOutcomes(M > INT_MAX \div (M + 1), WMul(Word(M), Word(M + 1)))

\* 2*M + 4 of line 636, in int
Denominator(M) == IntOutcomes(M > (INT_MAX - 4) \div 2, WAdd(WMul(Word(2), Word(M)), Word(4)))

\* x / 2 in int: the quotient is truncated towards zero
CDiv2(x) == IF x >= 0 THEN x \div 2 ELSE (x + 1) \div 2

\* a double is not-a-number, an infinity or a finite value; a finite value is
\* kept in binary fixed point, v counting units
Fin(v) == [cls |-> "fin", v |-> v]
NaN    == [cls |-> "nan", v |-> 0]
PosInf == [cls |-> "+inf", v |-> 0]
NegInf == [cls |-> "-inf", v |-> 0]

\* bits are counted in 1/1024 up to the division of line 636 and in 1/1048576
\* after it
Milli == 1024
Unit  == Milli * Milli

\* the number of whole bits of n >= 1
RECURSIVE ILog2(_)
ILog2(n) == IF n < 2 THEN 0 ELSE 1 + ILog2(n \div 2)

RECURSIVE Pow2(_)
Pow2(k) == IF k = 0 THEN 1 ELSE 2 * Pow2(k - 1)

\* the first k binary places of log2 of m / 2^14, 2^14 <= m < 2^15, by squaring
MantissaBits == 14
RECURSIVE FracBits(_, _)
FracBits(m, k) ==
  IF k = 0 THEN 0
  ELSE LET squared == (m * m) \div Pow2(MantissaBits) IN
       IF squared >= Pow2(MantissaBits + 1)
       THEN Pow2(k - 1) + FracBits(squared \div 2, k - 1)
       ELSE FracBits(squared, k - 1)

\* log((double) x) / log(2.) of line 636: not a number below zero, minus
\* infinity at zero
Log2(x) ==
  IF x < 0 THEN NaN
  ELSE IF x = 0 THEN NegInf
  ELSE LET e == ILog2(x)
           m == IF e >= MantissaBits THEN x \div Pow2(e - MantissaBits)
                                     ELSE x * Pow2(MantissaBits - e)
       IN Fin(e * Milli + FracBits(m, ILog2(Milli)))

\* 6. * (eX + l) of line 636, eX in 1/1024 bits
Numerator(eX, l) == IF l.cls = "fin" THEN Fin(6 * (eX + l.v)) ELSE l

Abs(a) == IF a < 0 THEN 0 - a ELSE a
\* a / b truncated towards zero, |a| < 2^31 = |INT_MIN|
TDiv(a, b) ==
  IF b = INT_MIN THEN 0
  ELSE IF (a < 0) = (b < 0) THEN Abs(a) \div Abs(b) ELSE 0 - (Abs(a) \div Abs(b))

\* n / (double) d of line 636
Quotient(n, d) ==
  CASE n.cls = "nan"  -> NaN
    [] n.cls = "+inf" -> IF d < 0 THEN NegInf ELSE PosInf
    [] n.cls = "-inf" -> IF d < 0 THEN PosInf ELSE NegInf
    [] OTHER          -> IF d # 0 THEN Fin(TDiv(n.v * Milli, d))
                         ELSE IF n.v > 0 THEN PosInf
                         ELSE IF n.v < 0 THEN NegInf
                         ELSE NaN

\* the comparisons of doubles: every comparison with not-a-number is false
DLess(a, b) ==
  /\ a.cls # "nan" /\ b.cls # "nan"
  /\ \/ a.cls = "-inf" /\ b.cls # "-inf"
     \/ a.cls # "+inf" /\ b.cls = "+inf"
     \/ a.cls = "fin" /\ b.cls = "fin" /\ a.v < b.v
DLeq(a, b) == a.cls # "nan" /\ b.cls # "nan" /\ ~DLess(b, a)

\* the hard minima, in bits
p7_ETARGET_AMINO == <<59, 100>>
p7_ETARGET_DNA   == <<62, 100>>
p7_ETARGET_OTHER == <<1, 1>>

\* the switch of lines 637-642 on bld->abc->type
ETarget(abc) ==
  LET floor == CASE abc = "eslAMINO" -> p7_ETARGET_AMINO
                 [] abc = "eslDNA"   -> p7_ETARGET_DNA
                 [] abc = "eslRNA"   -> p7_ETARGET_DNA
                 [] OTHER            -> p7_ETARGET_OTHER
  IN Fin((floor[1] * Unit) \div floor[2])

\* lines 637-643: etarget is raised to the hard minimum when it is less
Floored(abc, etarget) == IF DLess(etarget, ETarget(abc)) THEN ETarget(abc) ELSE etarget

\* default_target_relent, lines 632-646: the values it can return for the
\* configuration b (eX in 1/1024 bits, the alphabet type) and the length M
default_target_relent(b, M) ==
  {Floored(b.abc, Quotient(Numerator(b.eX, Log2(CDiv2(p))), d)) :
     p \in Product(M), d \in Denominator(M)}

\* the entropy-search offsets, in bits, and the model lengths: the small ones,
\* the ones on both sides of the first overflow of M * (M+1), of its wrapping
\* to a positive value, and of the overflow of 2*M + 4
EXValues == {-2, 0, 3, 6}
LargeM == {46339, 46340, 65534, 65535, 1073741821, INT_MAX - 2}
Lengths == 1..MaxM \cup LargeM

\* the function is applied to M, then to M + 1
RelentStep ==
  /\ pc = "relent"
  /\ Len(log) < 2
  /\ \E etarget \in default_target_relent([eX |-> inp.eX * Milli, abc |-> inp.abc], inp.M + Len(log)) :
       /\ log' = Append(log, [M |-> inp.M + Len(log), etarget |-> etarget])
       /\ ret' = [fn |-> "default_target_relent", status |-> etarget]
  /\ UNCHANGED <<bld, errcall, heap, loc, fr, pc, msa, sq, model, trace, invoked, calls, inp>>

InitRelent ==
  /\ \E eX \in EXValues, abc \in {"eslAMINO", "eslDNA", "eslRNA", "eslCOINS"}, M \in Lengths :
       inp = [eX |-> eX, abc |-> abc, M |-> M]
  /\ bld = NoBuilder
  /\ errcall = 0
  /\ heap = <<>>
  /\ loc = NoLoc
  /\ fr = NoFrame
  /\ pc = "relent"
  /\ msa = NoMsa
  /\ sq = NoSq
  /\ model = EmptyModel
  /\ trace = NoTrace
  /\ log = <<>>
  /\ invoked = <<>>
  /\ ret = [fn |-> "none", status |-> "unset"]
  /\ calls = [score |-> 0, build |-> 0]

SpecRelent == InitRelent /\ [][RelentStep]_vars

(***************************************************************************)
(* The properties.                                                         *)
(***************************************************************************)
\* the entry point fn has returned and no other call has started since
Returned(fn) == pc = "idle" /\ ret.fn = fn

Builders == {"p7_Builder", "p7_SingleBuilder"}

\* how often a routine was invoked by the current call
Invocations(routine) == Cardinality({i \in 1..Len(invoked) : invoked[i] = routine})

\* the current call's stage number n has returned success
StageDone(n) == fr.fn = "p7_Builder" /\ Len(log) >= n /\ log[n].st = eslOK

\* C1: in p7_Builder the stages run in the fixed order weighting, architecture,
\* effective-number, parameterization, annotation, calibration, alignment
\* reconstruction: the stages run so far are a prefix of that order with no
\* repetition, every stage but the last one run has returned success, and the
\* stage about to run is the next of the order.
C1_StageOrder ==
  fr.fn = "p7_Builder" =>
    /\ Len(log) <= Len(BuilderStages)
    /\ \A i \in 1..Len(log) :
         /\ log[i].stage = BuilderStages[i]
         /\ i < Len(log) => log[i].st = eslOK
    /\ pc \notin {"idle", "ERROR", "finish"} =>
         /\ pc = BuilderStages[Len(log) + 1]
         /\ \A i \in 1..Len(log) : log[i].st = eslOK

\* a call of p7_Builder in which all seven stages ran and that returned success
C1_Witness ==
  /\ Returned("p7_Builder") /\ ret.status = eslOK
  /\ Len(log) = Len(BuilderStages)
  /\ fr.req.postmsa /\ loc.postmsa # NULL

\* C2: when a stage of p7_Builder or p7_SingleBuilder returns a status s other
\* than success, no later stage is run and the entry point returns exactly s.
C2_FirstFailureReturned ==
  fr.fn \in Builders =>
    \A i \in 1..Len(log) :
      log[i].st # eslOK =>
        /\ i = Len(log)
        /\ pc \in {"idle", "ERROR", "sb_ERROR"}
        /\ pc = "idle" => ret.status = log[i].st

\* p7_Builder has returned the allocation failure of its calibration stage
C2_Witness ==
  /\ Returned("p7_Builder") /\ ret.status = eslEMEM
  /\ Len(log) = 6 /\ log[6].stage = "calibrate" /\ log[6].st = eslEMEM

\* C3: when p7_Builder or p7_SingleBuilder returns an error, none of the
\* caller's output locations refers to an object built during that call,
\* whether live or released.
C3_NoOutputOnError ==
  (pc = "idle" /\ ret.fn \in Builders /\ ret.status # eslOK) =>
    \A l \in {"hmm", "tr", "gm", "om", "postmsa"} :
      loc[l] = NULL \/ heap[loc[l]].call # callno

\* C4: when p7_Builder returns, the model and the trace array the call created
\* have each been handed to the caller exactly once (success, output requested)
\* or released exactly once (otherwise), never both and never neither; after a
\* failure of the architecture stage the call has left no model.
C4_ModelAndTracesOwnedOnce ==
  Returned("p7_Builder") =>
    /\ \A id \in DOMAIN heap :
         (heap[id].call = callno /\ heap[id].kind \in {"hmm", "trarr"}) =>
           LET wanted == IF heap[id].kind = "hmm" THEN fr.req.hmm ELSE fr.req.tr
               where  == IF heap[id].kind = "hmm" THEN loc.hmm ELSE loc.tr
           IN /\ heap[id].frees + heap[id].handed = 1
              /\ heap[id].handed = 1 <=> (ret.status = eslOK /\ wanted)
              /\ heap[id].handed = 1 => where = id
    /\ (Len(log) = 2 /\ log[2].st # eslOK) =>
         ~ \E id \in DOMAIN heap : heap[id].call = callno /\ heap[id].kind = "hmm"

\* p7_Builder has succeeded for a caller that asked for the model and for the
\* reconstructed alignment but not for the traces: the model was handed over,
\* the trace array the call needed was released
C4_Witness ==
  /\ Returned("p7_Builder") /\ ret.status = eslOK
  /\ fr.req.hmm /\ ~fr.req.tr /\ fr.req.postmsa
  /\ fr.hmm # NULL /\ heap[fr.hmm].handed = 1 /\ heap[fr.hmm].frees = 0
  /\ fr.tr # NULL /\ heap[fr.tr].frees = 1 /\ heap[fr.tr].handed = 0

\* C5: after a failure other than an allocation failure returned by p7_Builder,
\* p7_SingleBuilder or p7_builder_SetScoreSystem, the configuration's message
\* buffer holds a non-empty message written during that same call.
C5_MessageOnFailure ==
  (pc = "idle" /\ ret.fn \in Builders \cup {"p7_builder_SetScoreSystem"}
               /\ ret.status \notin {eslOK, eslEMEM}) =>
    /\ bld.errbuf # ""
    /\ errcall = callno

\* C6: p7_SingleBuilder on a configuration on which p7_builder_SetScoreSystem
\* was never called fails with eslEINVAL before p7_Seqmodel or the calibration
\* is invoked, and produces no model.
C6_UninitializedScoreSystem ==
  (fr.fn = "p7_SingleBuilder" /\ calls.score = 0) =>
    /\ Invocations("p7_Seqmodel") = 0
    /\ Invocations("p7_Calibrate") = 0
    /\ pc \notin {"sb_seqmodel", "sb_calibrate", "sb_trace", "sb_finish"}
    /\ fr.hmm = NULL /\ loc.hmm = NULL
    /\ ~ \E id \in DOMAIN heap : heap[id].call = callno /\ heap[id].kind = "hmm"
    /\ pc = "idle" => ret.status = eslEINVAL

\* p7_SingleBuilder, asked for a model, has returned on a configuration whose
\* score system was never set
C6_Witness ==
  /\ Returned("p7_SingleBuilder") /\ calls.score = 0
  /\ fr.req.hmm /\ ret.status = eslEINVAL

\* the weighting algorithm a strategy names
ConfiguredAlgorithm(strategy) ==
  IF strategy = p7_WGT_PB THEN "esl_msaweight_PB"
  ELSE IF strategy = p7_WGT_GSC THEN "esl_msaweight_GSC"
  ELSE "esl_msaweight_BLOSUM"

\* the weighting stage of the current call has run under a strategy that names an algorithm
WeightedBy(strategies) ==
  fr.fn = "p7_Builder" /\ Len(log) >= 1 /\ bld.wgt_strategy \in strategies

\* C7 as stated: under the position-based, GSC and BLOSUM strategies the
\* position-based algorithm is invoked when the sequence count is greater than
\* or equal to the switch-over threshold, the configured algorithm below it.
C7_SwitchOver ==
  WeightedBy({p7_WGT_PB, p7_WGT_GSC, p7_WGT_BLOSUM}) =>
    /\ Len(invoked) >= 1
    /\ invoked[1] = IF msa.nseq >= bld.pbswitch THEN "esl_msaweight_PB"
                    ELSE ConfiguredAlgorithm(bld.wgt_strategy)

\* C7 amended: the switch-over applies when the threshold is not the value -1
\* that turns it off; with the threshold -1, or below the threshold, the
\* configured algorithm is invoked.
C7_SwitchOverUnlessOff ==
  WeightedBy({p7_WGT_PB, p7_WGT_GSC, p7_WGT_BLOSUM}) =>
    /\ Len(invoked) >= 1
    /\ invoked[1] = IF bld.pbswitch # -1 /\ msa.nseq >= bld.pbswitch THEN "esl_msaweight_PB"
                    ELSE ConfiguredAlgorithm(bld.wgt_strategy)
    /\ Cardinality({i \in 1..Len(invoked) : invoked[i] \in WeightAlgorithms}) = 1

\* an alignment with exactly as many sequences as the threshold was weighted
\* under the GSC strategy
C7_Witness ==
  /\ WeightedBy({p7_WGT_GSC})
  /\ bld.pbswitch # -1 /\ msa.nseq = bld.pbswitch
  /\ invoked[1] = "esl_msaweight_PB"

\* C8: under "none" and "given" no weighting algorithm is invoked, whatever
\* the sequence count; "none" leaves every weight equal to 1, "given" leaves
\* the weights as they came; both return success.
C8_NoneAndGiven ==
  WeightedBy({p7_WGT_NONE, p7_WGT_GIVEN}) =>
    /\ \A i \in 1..Len(invoked) : invoked[i] \notin WeightAlgorithms
    /\ log[1].st = eslOK
    /\ Len(msa.wgt) = msa.nseq
    /\ bld.wgt_strategy = p7_WGT_NONE => \A i \in 1..msa.nseq : msa.wgt[i] = 1
    /\ bld.wgt_strategy = p7_WGT_GIVEN => msa.wgt = msa.wgt0

\* an alignment above the switch-over threshold, with weights other than 1,
\* has passed the weighting stage under "given"
C8_Witness ==
  /\ WeightedBy({p7_WGT_GIVEN})
  /\ bld.pbswitch # -1 /\ msa.nseq > bld.pbswitch
  /\ msa.wgt0[1] = 2 /\ msa.wgt[1] = 2

\* C9: after the effective-number stage has succeeded, the model's effective
\* sequence number is > 0 and <= its nominal sequence count under the none,
\* cluster and entropy strategies, and is the value the caller gave with --eset
\* under the set strategy.
C9_EffectiveNumberRange ==
  StageDone(3) =>
    /\ bld.effn_strategy \in {p7_EFFN_NONE, p7_EFFN_CLUST, p7_EFFN_ENTROPY} =>
         RPos(model.eff_nseq) /\ RLeq(model.eff_nseq, Real(model.nseq))
    /\ bld.effn_strategy = p7_EFFN_NONE => REq(model.eff_nseq, Real(model.nseq))
    /\ bld.effn_strategy = p7_EFFN_SET =>
         "--eset" \in inp.go.on /\ model.eff_nseq = inp.go.eset

\* the stage has succeeded under the set strategy with a value above the
\* nominal sequence count
C9_Witness ==
  /\ StageDone(3)
  /\ bld.effn_strategy = p7_EFFN_SET
  /\ ~RLeq(model.eff_nseq, Real(model.nseq))

\* C10: a successful effective-number stage has scaled the model's counts
\* exactly once, by effective number / nominal count; under "none" the ratio
\* is 1 and the counts are what the architecture stage left.
C10_ScaledOnce ==
  StageDone(3) =>
    /\ Invocations("p7_hmm_Scale") = 1
    /\ Len(model.counts) = Len(model.counts0)
    /\ \A i \in 1..Len(model.counts) :
         REq(model.counts[i], RMul(model.counts0[i], RDiv(model.eff_nseq, Real(model.nseq))))
    /\ bld.effn_strategy = p7_EFFN_NONE =>
         /\ REq(RDiv(model.eff_nseq, Real(model.nseq)), Real(1))
         /\ \A i \in 1..Len(model.counts) : REq(model.counts[i], model.counts0[i])

\* the stage has succeeded under the entropy strategy with an effective number
\* of one half for two sequences: the counts are a quarter of what they were
C10_Witness ==
  /\ StageDone(3)
  /\ bld.effn_strategy = p7_EFFN_ENTROPY
  /\ model.nseq = 2 /\ model.eff_nseq = <<1, 2>>
  /\ \A i \in 1..Len(model.counts) : REq(RMul(model.counts[i], Real(4)), model.counts0[i])

\* the seed the configuration was created with (0 when no options were given)
CreatedSeed == IF inp.go.isnull THEN 0 ELSE inp.go.seed

\* the current call has run its calibration, successfully
Calibrated ==
  /\ fr.fn \in Builders
  /\ \E i \in 1..Len(log) : log[i].stage = "calibrate" /\ log[i].st = eslOK

\* a step that runs the calibration
CalibrationStep == pc \in {"calibrate", "sb_calibrate"} /\ pc' # pc

\* C11: a configuration created with a nonzero seed has the reseed flag set, and
\* every calibration of p7_Builder or p7_SingleBuilder then starts from the
\* initial state of the random source, whatever ran before, so that its
\* parameters depend on the seed only; with seed 0 the flag is clear and each
\* calibration starts where the previous one left the random stream.
C11_Reseeding ==
  /\ [](/\ bld.do_reseeding <=> CreatedSeed # 0
        /\ bld.r.seed = CreatedSeed
        /\ (Calibrated /\ CreatedSeed # 0) => model.evparam = <<CreatedSeed, 0>>)
  /\ [][CalibrationStep =>
          /\ bld'.r.pos = 1 + (IF CreatedSeed # 0 THEN 0 ELSE bld.r.pos)
          /\ fr'.status = eslOK =>
                model'.evparam = <<CreatedSeed, IF CreatedSeed # 0 THEN 0 ELSE bld.r.pos>>]_vars

\* the second build on a configuration with a nonzero seed, after a first one
\* that moved the random source, has calibrated
C11_Witness ==
  /\ CreatedSeed # 0 /\ calls.build = 2 /\ Calibrated
  /\ model.evparam = <<CreatedSeed, 0>>

\* p7_builder_Create has returned a configuration and nothing was called since
Created == pc = "idle" /\ ret.fn = "p7_builder_Create"

\* C12: every configuration p7_builder_Create returns, from no options or from
\* any options (also when no flag of a category is on), holds one defined
\* strategy in each of the three categories, and eset >= 0 whenever the
\* effective-number strategy is set-value.
C12_OneStrategyEach ==
  Created =>
    /\ bld.arch_strategy \in {p7_ARCH_FAST, p7_ARCH_HAND}
    /\ bld.wgt_strategy \in {p7_WGT_NONE, p7_WGT_GIVEN, p7_WGT_GSC, p7_WGT_PB, p7_WGT_BLOSUM}
    /\ bld.effn_strategy \in {p7_EFFN_NONE, p7_EFFN_SET, p7_EFFN_CLUST, p7_EFFN_ENTROPY}
    /\ bld.effn_strategy = p7_EFFN_SET => RLeq(Real(0), bld.eset)

\* C13: when the record, the random source or the prior cannot be built,
\* p7_builder_Create returns NULL with everything it built released exactly
\* once; a configuration it returns has its random source and its prior.
C13_CreateAllOrNothing ==
  ret.fn = "p7_builder_Create" =>
    /\ Created => (bld.self # NULL /\ bld.r_obj # NULL /\ bld.prior_obj # NULL)
    /\ pc = "gone" =>
         /\ bld.self = NULL
         /\ \A id \in DOMAIN heap : heap[id].frees = 1

\* p7_builder_SetScoreSystem has returned and nothing was called since
ScoreSystemReturned == pc = "idle" /\ ret.fn = "p7_builder_SetScoreSystem"

\* the routine whose failure ended the last p7_builder_SetScoreSystem call ("none": it succeeded)
FailedAt == IF Len(log) = 0 THEN "none" ELSE log[1].stage

\* C14: in p7_builder_SetScoreSystem the symmetry test comes before the
\* back-calculation: for a matrix that is not symmetric the call fails, the
\* Yu/Altschul back-calculation is not invoked, and the call builds and installs
\* no conditional-probability table.
C14_SymmetryFirst ==
  ScoreSystemReturned =>
    /\ \A i, j \in 1..Len(invoked) :
         (invoked[i] = "esl_scorematrix_IsSymmetric" /\ invoked[j] = "esl_sco_Probify") => i < j
    /\ FailedAt = "esl_scorematrix_IsSymmetric" =>
         /\ ret.status # eslOK
         /\ Invocations("esl_sco_Probify") = 0
         /\ ~ \E id \in DOMAIN heap : heap[id].kind = "dmatrix" /\ heap[id].call = callno
         /\ bld.Q # NULL => heap[bld.Q].call # callno

\* a matrix file that is not symmetric was refused on a configuration that
\* already had a score system
C14_Witness ==
  /\ ScoreSystemReturned /\ FailedAt = "esl_scorematrix_IsSymmetric"
  /\ calls.score = 2
  /\ Invocations("esl_scorematrix_IsSymmetric") = 1

C16_ScoreSystemReleasedOnce ==
  \A id \in DOMAIN heap :
    heap[id].kind \in {"scorematrix", "dmatrix"} =>
      /\ heap[id].frees <= 1
      /\ (pc = "gone" /\ ret.fn = "p7_builder_Destroy") => heap[id].frees = 1

\* the last call of p7_SingleBuilder returned eslOK and handed a trace to the caller
TraceReturned ==
  /\ Returned("p7_SingleBuilder") /\ ret.status = eslOK /\ fr.req.tr
  /\ fr.tr # NULL /\ heap[fr.tr].handed = 1 /\ loc.tr = fr.tr

Outputs == {"hmm", "tr", "gm", "om", "postmsa"}

OutputKind == [hmm |-> "hmm", tr |-> "trarr", gm |-> "profile", om |-> "oprofile", postmsa |-> "msa"]

\* C18: p7_Builder writes an optional output only if the caller asked for it,
\* and hands over no object that was not asked for; after a successful return
\* every output asked for holds a live object of its kind built by that call;
\* the alignment-reconstruction stage, when the reconstructed alignment was not
\* asked for, returns success without invoking anything or building anything.
C18_OutputsAsRequested ==
  fr.fn = "p7_Builder" =>
    /\ \A l \in Outputs : ~fr.req[l] => loc[l] = NULL
    /\ \A id \in DOMAIN heap :
         (heap[id].call = callno /\ heap[id].handed > 0) =>
           \E l \in Outputs : fr.req[l] /\ loc[l] = id /\ heap[id].handed = 1
    /\ (pc = "idle" /\ ret.status = eslOK) =>
         \A l \in Outputs :
           fr.req[l] =>
             /\ loc[l] # NULL
             /\ heap[loc[l]].call = callno
             /\ heap[loc[l]].kind = OutputKind[l]
             /\ heap[loc[l]].frees = 0
    /\ (~fr.req.postmsa /\ Len(log) >= Len(BuilderStages)) =>
         /\ log[Len(BuilderStages)] = [stage |-> "make_post_msa", st |-> eslOK]
         /\ Invocations("p7_tracealign_MSA") = 0
         /\ ~ \E id \in DOMAIN heap : heap[id].call = callno /\ heap[id].kind = "msa"

\* p7_Builder has succeeded for a caller that asked for the model and the
\* optimized profile only
C18_Witness ==
  /\ Returned("p7_Builder") /\ ret.status = eslOK
  /\ fr.req = [hmm |-> TRUE, tr |-> FALSE, gm |-> FALSE, om |-> TRUE, postmsa |-> FALSE]
  /\ loc.hmm # NULL /\ loc.om # NULL /\ loc.gm = NULL /\ loc.tr = NULL /\ loc.postmsa = NULL

\* the values default_target_relent returned for the length M and for M + 1
RelentAt(i) == log[i].etarget

\* C19: for every offset and every alphabet the default target does not grow
\* with the model length: the value returned for M + 1 is at most the value
\* returned for M
C19_NonIncreasing ==
  (pc = "relent" /\ Len(log) = 2) => DLeq(RelentAt(2), RelentAt(1))

\* C20: for every model length of the int range, every offset and every
\* alphabet, the value default_target_relent returns is at least the hard
\* minimum of the alphabet
C20_AtLeastFloor ==
  pc = "relent" => \A i \in DOMAIN log : DLeq(ETarget(inp.abc), RelentAt(i))

\* the cutoff families: the two members of the pair and the presence flag
Families ==
  {[c1 |-> "GA1", c2 |-> "GA2", flag |-> "p7H_GA"],
   [c1 |-> "TC1", c2 |-> "TC2", flag |-> "p7H_TC"],
   [c1 |-> "NC1", c2 |-> "NC2", flag |-> "p7H_NC"]}

\* C21: after the annotation stage has succeeded, for each cutoff family on
\* its own: when the alignment has both members of the pair set, the model
\* holds both values of the alignment and the family's flag; when a member is
\* missing, the model holds neither value and the flag is not set.
C21_CutoffFamilies ==
  StageDone(5) =>
    \A f \in Families :
      IF f.c1 \in msa.cutset /\ f.c2 \in msa.cutset
      THEN /\ {p \in model.cutoff : p[1] \in {f.c1, f.c2}}
                = {<<f.c1, MsaCutoff[f.c1]>>, <<f.c2, MsaCutoff[f.c2]>>}
           /\ f.flag \in model.flags
      ELSE /\ {p \in model.cutoff : p[1] \in {f.c1, f.c2}} = {}
           /\ f.flag \notin model.flags

\* the stage has succeeded on an alignment with the general pair complete,
\* one trusted cutoff and no noise cutoff
C21_Witness ==
  /\ StageDone(5)
  /\ msa.cutset = {"GA1", "GA2", "TC1"}
  /\ "p7H_GA" \in model.flags /\ "p7H_TC" \notin model.flags
  /\ <<"GA2", MsaCutoff.GA2>> \in model.cutoff

\* the table the configuration holds can be used: it is an object that still
\* exists, not released, holding the normalized conditional probabilities
UsableTable ==
  /\ bld.Q \in DOMAIN heap
  /\ heap[bld.Q].kind = "dmatrix"
  /\ heap[bld.Q].frees = 0
  /\ heap[bld.Q].val = "conditional"

\* p7_SingleBuilder is past its test of the score system
PastScoreCheck ==
  /\ fr.fn = "p7_SingleBuilder"
  /\ \/ pc \in {"sb_seqmodel", "sb_calibrate", "sb_trace", "sb_finish"}
     \/ \E i \in 1..Len(log) : log[i].stage # "score system"

\* p7_SingleBuilder gets past its test of the score system only with a usable
\* table
CheckPassedOnUsable == PastScoreCheck => UsableTable

\* C22: between calls, whatever series of p7_builder_SetScoreSystem calls the
\* configuration has seen, its table is absent or usable; p7_SingleBuilder
\* gets past its test of the score system only with a usable table.
C22_TableAbsentOrUsable ==
  /\ pc = "idle" => (bld.Q = NULL \/ UsableTable)
  /\ CheckPassedOnUsable

\* the kind of object each output of p7_SingleBuilder is: its opt_tr takes one
\* trace, not an array of traces
SingleOutputKind == [OutputKind EXCEPT !.tr = "trace"]

\* C23: when p7_SingleBuilder returns success, every output the caller asked
\* for (model, trace, profile, optimized profile) holds an object built by that
\* call and not released; a trace that could not be created or extended after
\* the calibration makes the call return an error.
C23_SingleSuccessDelivers ==
  (Returned("p7_SingleBuilder") /\ ret.status = eslOK) =>
    \A l \in {"hmm", "tr", "gm", "om"} :
      fr.req[l] =>
        /\ loc[l] \in DOMAIN heap
        /\ heap[loc[l]].call = callno
        /\ heap[loc[l]].kind = SingleOutputKind[l]
        /\ heap[loc[l]].frees = 0

\* the error path of p7_Builder or p7_SingleBuilder is about to run in a call
\* whose calibration stage was not reached
FailedBeforeCalibration ==
  /\ pc \in {"ERROR", "sb_ERROR"}
  /\ ~ \E i \in 1..Len(log) : log[i].stage = "calibrate"

\* C24: when p7_Builder or p7_SingleBuilder fails before its calibration stage
\* has run, the error path releases only objects created by that call: what
\* the caller's profile and optimized-profile locations held on entry is not
\* released.
C24_ReleasesOwnObjectsOnly ==
  [][FailedBeforeCalibration =>
       \A id \in DOMAIN heap :
         (id \in DOMAIN heap' /\ heap'[id].frees > heap[id].frees) => heap[id].call = callno]_vars

====
